---------------------------- MODULE Spec2Model ----------------------------
(***************************************************************************)
(* Model of lib/model/losses_plaid.py, the loss functions and LossWrapper,  *)
(* and of plugins/extract/align/dlib.py, the Align.align worker.           *)
(*                                                                         *)
(* Numbers.  Tensor entries are extended rationals [n, d]: n/d with d > 0  *)
(* in lowest terms is a finite value, 1/0 and -1/0 are the two infinities  *)
(* and 0/0 is NaN, with the IEEE-754 rules for them.  Arithmetic is exact  *)
(* (real) arithmetic: float rounding is not modelled.                      *)
(*                                                                         *)
(* Tensors.  A tensor is [shape, val].  The image batches the model feeds  *)
(* the losses are constant over the two spatial axes (every pixel of one   *)
(* channel of one sample has the same value), so val[n][c] is the value of *)
(* sample n, channel c.  Every operation below maps such tensors to such   *)
(* tensors; shapes are tracked in full.  _diff_xy is also modelled pixel   *)
(* by pixel, on planes (DiffXYPlane).                                      *)
(***************************************************************************)
EXTENDS Integers, Sequences, FiniteSets, TLC

VARIABLES
    loss_functions,   \* LossWrapper._loss_functions
    loss_weights,     \* LossWrapper._loss_weights
    mask_channels,    \* LossWrapper._mask_channels
    y_true,           \* arguments of the last call (of the wrapper or of a loss)
    y_pred,
    outcome,          \* how the last call ended: returned a value, or raised
    log,              \* what the last LossWrapper.__call__ did, in order
    filter_size,      \* _filter_size of the one MSSIMLoss instance
    kernel,           \* _kernel of that instance
    power_factors,    \* _power_factors of that instance
    filter_size0,     \* the filter_size that instance was constructed with
    sizes_seen,       \* the image sizes that instance was called with so far
    prev_filter_size, \* _filter_size as the last MSSIMLoss call found it
    ms_trace,         \* the _get_ssim calls of the last MSSIMLoss call
    ms_terms,         \* the list `contrasts` at the end of that call
    gl_alpha,         \* alpha of the one GeneralizedLoss instance
    gl_beta,          \* beta of that instance
    threads,          \* the threads inside _get_ms_ssim: position and locals
    shrunk,           \* what the last _shrink_images did
    grad,             \* an image pair and what _diff_xy made of it
    queues,           \* Align.queues: "in" and "out", oldest entry first
    pc,               \* where the Align.align worker is
    item,             \* its local variable item
    taken,            \* what queues["in"].get() returned so far, in order
    calls,            \* its calls of self.model, queues["out"].put and
                      \* self.finalize so far, in order
    queue0            \* queues["in"] as the worker found it

wvars == <<loss_functions, loss_weights, mask_channels, log>>

iovars == <<y_true, y_pred, outcome>>

msvars == <<filter_size, kernel, power_factors, filter_size0>>

mshist == <<sizes_seen, prev_filter_size, ms_trace, ms_terms>>

glvars == <<gl_alpha, gl_beta>>

alignvars == <<queues, pc, item, taken, calls, queue0>>

others == <<grad, alignvars>>

vars == <<wvars, iovars, msvars, mshist, glvars, threads, shrunk, others>>

---------------------------------------------------------------------------
(* Extended rational arithmetic                                            *)

Abs(x) == IF x < 0 THEN -x ELSE x

Min(a, b) == IF a < b THEN a ELSE b

Max(a, b) == IF a > b THEN a ELSE b

RECURSIVE GCD(_, _)
GCD(a, b) == IF b = 0 THEN a ELSE GCD(b, a % b)

Norm(n, d) ==
    IF d = 0 THEN [n |-> (IF n > 0 THEN 1 ELSE IF n < 0 THEN -1 ELSE 0), d |-> 0]
    ELSE LET s == IF d < 0 THEN -1 ELSE 1
             g == GCD(Abs(n), Abs(d))
         IN  [n |-> (s * n) \div g, d |-> (s * d) \div g]

R(n, d) == Norm(n, d)

Zero == R(0, 1)

One == R(1, 1)

NaN == R(0, 0)

IsNaN(a) == a.d = 0 /\ a.n = 0

IsInf(a) == a.d = 0 /\ a.n # 0

IsFinite(a) == a.d > 0

RNeg(a) == [n |-> -a.n, d |-> a.d]

RAdd(a, b) ==
    IF IsNaN(a) \/ IsNaN(b) THEN NaN
    ELSE IF IsInf(a) THEN (IF IsInf(b) /\ b.n # a.n THEN NaN ELSE a)
    ELSE IF IsInf(b) THEN b
    ELSE Norm(a.n * b.d + b.n * a.d, a.d * b.d)

RSub(a, b) == RAdd(a, RNeg(b))

RMul(a, b) == Norm(a.n * b.n, a.d * b.d)

RRecip(a) == Norm(a.d, a.n)

RDiv(a, b) == RMul(a, RRecip(b))

RAbs(a) == [n |-> Abs(a.n), d |-> a.d]

RLess(a, b) == a.n * b.d < b.n * a.d

RMax(a, b) == IF IsNaN(a) \/ IsNaN(b) THEN NaN ELSE IF RLess(a, b) THEN b ELSE a

RSquare(a) == RMul(a, a)

RECURSIVE IntPow(_, _)
IntPow(b, e) == IF e = 0 THEN 1 ELSE b * IntPow(b, e - 1)

IsSquare(k) == \E r \in 0..k : r * r = k

ISqrt(k) == CHOOSE r \in 0..k : r * r = k

(* K.pow(x, e) for a finite exponent e >= 0.  Exact where the result is    *)
(* rational: e = 0 (1 for every x, NaN included), an integer e, e = 1/2 of *)
(* a square, or a base of 0, 1 or +infinity.  No other case is evaluated   *)
(* by the model: its inputs are chosen so that every power is exact.       *)
RPow(x, e) ==
    CASE e.n = 0 -> One
      [] e.n # 0 /\ IsNaN(x) -> NaN
      [] e.n # 0 /\ IsInf(x) /\ x.n > 0 -> x
      [] e.n # 0 /\ IsFinite(x) /\ x.n = 0 -> Zero
      [] e.n # 0 /\ IsFinite(x) /\ x = One -> One
      [] e.n # 0 /\ IsFinite(x) /\ x.n # 0 /\ x # One /\ e.d = 1
            -> Norm(IntPow(x.n, e.n), IntPow(x.d, e.n))
      [] e = R(1, 2) /\ IsFinite(x) /\ x.n > 0 /\ x # One
            /\ IsSquare(x.n) /\ IsSquare(x.d)
            -> Norm(ISqrt(x.n), ISqrt(x.d))

RECURSIVE RSumSeq(_)
RSumSeq(s) == IF s = <<>> THEN Zero ELSE RAdd(s[1], RSumSeq(Tail(s)))

RMeanSeq(s) == RDiv(RSumSeq(s), R(Len(s), 1))

---------------------------------------------------------------------------
(* Tensors                                                                 *)

(* val is kept as a tuple of tuples                                        *)
Tuples(val) == SubSeq([n \in DOMAIN val |-> SubSeq(val[n], 1, Len(val[n]))], 1, Len(val))

Tensor(shape, val) == [shape |-> shape, val |-> Tuples(val)]

Batch(t) == DOMAIN t.val

Chans(t) == DOMAIN t.val[1]

(* A tensor with no elements (a dimension of size <= 0): its mean is 0/0.  *)
IsEmpty(t) == \E i \in DOMAIN t.shape : t.shape[i] <= 0

RECURSIVE Product(_)
Product(s) == IF s = <<>> THEN 1 ELSE s[1] * Product(Tail(s))

NumElements(t) == Product(t.shape)

(* Elementwise operations of two tensors of the same shape                *)
TAdd(a, b) == Tensor(a.shape, [n \in Batch(a) |-> [c \in Chans(a) |-> RAdd(a.val[n][c], b.val[n][c])]])

TSub(a, b) == Tensor(a.shape, [n \in Batch(a) |-> [c \in Chans(a) |-> RSub(a.val[n][c], b.val[n][c])]])

TMul(a, b) == Tensor(a.shape, [n \in Batch(a) |-> [c \in Chans(a) |-> RMul(a.val[n][c], b.val[n][c])]])

TDiv(a, b) == Tensor(a.shape, [n \in Batch(a) |-> [c \in Chans(a) |-> RDiv(a.val[n][c], b.val[n][c])]])

(* Elementwise operations of a tensor and a Python float                   *)
TAddS(a, k) == Tensor(a.shape, [n \in Batch(a) |-> [c \in Chans(a) |-> RAdd(a.val[n][c], k)]])

TMulS(a, k) == Tensor(a.shape, [n \in Batch(a) |-> [c \in Chans(a) |-> RMul(a.val[n][c], k)]])

(* K.square, K.abs                                                         *)
TSquare(a) == Tensor(a.shape, [n \in Batch(a) |-> [c \in Chans(a) |-> RSquare(a.val[n][c])]])

TAbs(a) == Tensor(a.shape, [n \in Batch(a) |-> [c \in Chans(a) |-> RAbs(a.val[n][c])]])

(* t[..., :k]                                                              *)
SliceChannels(t, k) ==
    LET r == Len(t.shape)
        c == Min(t.shape[r], k)
    IN  Tensor([t.shape EXCEPT ![r] = c],
               [n \in Batch(t) |-> SubSeq(t.val[n], 1, c)])

(* K.mean(t, axis=-1): the channel axis is averaged away.                  *)
MeanLastAxis(t) ==
    Tensor(SubSeq(t.shape, 1, Len(t.shape) - 1),
           [n \in Batch(t) |-> << IF IsEmpty(t) THEN NaN ELSE RMeanSeq(t.val[n]) >>])

(* K.mean(t) with no axis: one scalar, the batch axis included.            *)
MeanAll(t) ==
    Tensor(<<>>,
           [n \in {1} |-> << IF IsEmpty(t) THEN NaN
                             ELSE RMeanSeq([i \in 1..Cardinality(Batch(t)) |->
                                               RMeanSeq(t.val[i])]) >>])

(* K.mean(t, axis=list(range(1, K.ndim(t)))): every axis past the first is *)
(* averaged away; of a scalar (no axes), the scalar itself.                *)
MeanNonBatch(t) ==
    IF Len(t.shape) = 0 THEN t
    ELSE Tensor(<<t.shape[1]>>,
                [n \in Batch(t) |-> << IF IsEmpty(t) THEN NaN ELSE RMeanSeq(t.val[n]) >>])

(* a + b where each is a scalar or a vector of one value per sample        *)
(* (LossWrapper.__call__'s `loss +=`): a scalar is broadcast.              *)
AddBroadcast(a, b) ==
    LET big == IF Len(a.shape) >= Len(b.shape) THEN a ELSE b
        at(t, n) == IF Len(t.shape) = 0 THEN t.val[1][1] ELSE t.val[n][1]
    IN  Tensor(big.shape, [n \in Batch(big) |-> << RAdd(at(a, n), at(b, n)) >>])

---------------------------------------------------------------------------
(* What a call of a loss function can end in: a tensor, or an exception.   *)

NoTensor == Tensor(<<>>, [n \in {1} |-> << NaN >>])

Value(t) == [raised |-> FALSE, err |-> "", t |-> t]

Raise(e) == [raised |-> TRUE, err |-> e, t |-> NoTensor]

(* The backend refuses an elementwise operation on operands whose shapes   *)
(* differ in a dimension (the model's shapes never differ by a 1).         *)
SameShape(a, b) == a.shape = b.shape

ConstTensor(shape, bs, cs, v) == Tensor(shape, [n \in 1..bs |-> [c \in 1..cs |-> v]])

---------------------------------------------------------------------------
(* DSSIMObjective                                                          *)

FilterSizeDefault == 11

K1 == R(1, 100)

K2 == R(3, 100)

MaxValue == One

C1const == RSquare(RMul(K1, MaxValue))

C2const == RMul(RSquare(RMul(K2, MaxValue)), One)

(* _get_kernel: a filter_size x filter_size x 1 x 1 kernel, the softmax of *)
(* the negative squared distances, so its entries sum to 1.                *)
GetKernel(fs) == [h |-> fs, w |-> fs]

(* DSSIMObjective.__init__ (MSSIMLoss.__init__ adds power_factors)         *)
NewDSSIM(fs) ==
    [filter_size |-> fs, kernel |-> GetKernel(fs), c1 |-> C1const, c2 |-> C2const]

(* K.depthwise_conv2d(image, kernel, strides=(1, 1), padding="valid") has  *)
(* an output only where the kernel fits in the image.                      *)
ConvDefined(image, kern) ==
    /\ kern.h >= 1 /\ kern.w >= 1
    /\ image.shape[2] - kern.h + 1 >= 1
    /\ image.shape[3] - kern.w + 1 >= 1

(* _depthwise_conv2d: output spatial size H-kh+1, W-kw+1; a window of a    *)
(* constant plane weighted by a unit-sum kernel is that constant.          *)
DepthwiseConv2d(image, kern) ==
    Tensor(<<image.shape[1], image.shape[2] - kern.h + 1,
             image.shape[3] - kern.w + 1, image.shape[4]>>, image.val)

(* K.mean(x, axis=(-3, -2)) of an (N, H, W, C) tensor                      *)
MeanSpatial(t) == Tensor(<<t.shape[1], t.shape[4]>>, t.val)

(* _get_ssim where the convolution is defined: [ssim, contrast]            *)
SsimTerms(self, yt, yp) ==
    LET mean_true == DepthwiseConv2d(yt, self.kernel)
        mean_pred == DepthwiseConv2d(yp, self.kernel)
        num_lum   == TMulS(TMul(mean_true, mean_pred), R(2, 1))
        den_lum   == TAdd(TSquare(mean_true), TSquare(mean_pred))
        luminance == TDiv(TAddS(num_lum, self.c1), TAddS(den_lum, self.c1))
        num_con   == TMulS(DepthwiseConv2d(TMul(yt, yp), self.kernel), R(2, 1))
        den_con   == DepthwiseConv2d(TAdd(TSquare(yt), TSquare(yp)), self.kernel)
        contrast  == TDiv(TAddS(TSub(num_con, num_lum), self.c2),
                          TAddS(TSub(den_con, den_lum), self.c2))
    IN  [ssim     |-> MeanSpatial(TMul(luminance, contrast)),
         contrast |-> MeanSpatial(contrast)]

(* _get_ssim.  With operands of different shapes the backend raises.  With *)
(* a kernel that does not fit in the image the convolution has no output   *)
(* position: the backend either rejects it or yields an empty tensor,      *)
(* whose mean is 0/0.                                                      *)
GetSsim(self, yt, yp) ==
    LET nc  == <<yt.shape[1], yt.shape[4]>>
        nan == ConstTensor(nc, yt.shape[1], yt.shape[4], NaN)
    IN  IF ~ConvDefined(yt, self.kernel)
        THEN {[raised |-> TRUE, err |-> "BackendError", ssim |-> nan, contrast |-> nan],
              [raised |-> FALSE, err |-> "", ssim |-> nan, contrast |-> nan]}
        ELSE IF ~SameShape(yt, yp)
        THEN {[raised |-> TRUE, err |-> "BackendError", ssim |-> nan, contrast |-> nan]}
        ELSE LET r == SsimTerms(self, yt, yp)
             IN  {[raised |-> FALSE, err |-> "", ssim |-> r.ssim, contrast |-> r.contrast]}

(* DSSIMObjective.__call__                                                 *)
DSSIMCall(self, yt, yp) ==
    { IF o.raised THEN Raise(o.err)
      ELSE LET retval == TMulS(TAddS(TMulS(o.ssim, R(-1, 1)), One), R(1, 2))
           IN  Value(MeanAll(retval))
      : o \in GetSsim(self, yt, yp) }

---------------------------------------------------------------------------
(* GeneralizedLoss, LInfNorm                                               *)

(* lines 362-366 once the Python-level factor |2 - alpha| / alpha is known *)
GeneralizedLossValue(alpha, beta, factor, yt, yp) ==
    LET diff   == TSub(yp, yt)
        second == Tensor(diff.shape,
                     [n \in Batch(diff) |-> [c \in Chans(diff) |->
                         RSub(RPow(RAdd(RDiv(RPow(RDiv(diff.val[n][c], beta), R(2, 1)),
                                             RAbs(RSub(R(2, 1), alpha))),
                                        One),
                                   RDiv(alpha, R(2, 1))),
                              One)]])
        loss   == TMulS(second, factor)
    IN  TMulS(MeanLastAxis(loss), beta)

(* GeneralizedLoss.__call__.  Nothing checks alpha.  With alpha = 0 the    *)
(* factor K.abs(2. - alpha) / alpha divides by zero: where K.abs of a      *)
(* float is a float Python raises ZeroDivisionError, where it is a tensor  *)
(* the quotient is +infinity.  With alpha = 2 the division by              *)
(* K.abs(2. - alpha) = 0 is a tensor division and yields inf or NaN.       *)
GeneralizedLossCall(alpha, beta, yt, yp) ==
    IF ~SameShape(yt, yp) THEN {Raise("BackendError")}
    ELSE IF alpha.n = 0
    THEN {Raise("ZeroDivisionError"),
          Value(GeneralizedLossValue(alpha, beta, R(1, 0), yt, yp))}
    ELSE {Value(GeneralizedLossValue(alpha, beta,
                    RDiv(RAbs(RSub(R(2, 1), alpha)), alpha), yt, yp))}

(* LInfNorm.__call__                                                       *)
LInfNormCall(yt, yp) ==
    IF ~SameShape(yt, yp) THEN {Raise("BackendError")}
    ELSE LET diff     == TAbs(TSub(yt, yp))
             max_loss == Tensor(<<diff.shape[1], 1, 1, diff.shape[4]>>, diff.val)
         IN  {Value(MeanLastAxis(max_loss))}

---------------------------------------------------------------------------
(* MSSIMLoss                                                               *)

(* MSSIMLoss.__init__                                                      *)
NewMSSIM(fs, pf) ==
    [filter_size |-> fs, kernel |-> GetKernel(fs), c1 |-> C1const, c2 |-> C2const,
     power_factors |-> pf]

(* _get_smallest_size                                                      *)
RECURSIVE GetSmallestSize(_, _)
GetSmallestSize(size, idx) ==
    IF idx > 0 THEN GetSmallestSize(size \div 2, idx - 1) ELSE size

(* lib.plaidml_utils.pad(img, [[0, 0], [0, 1], [0, 1], [0, 0]],            *)
(* mode="REFLECT"): one more row and one more column, each the mirror      *)
(* image of the last but one.                                              *)
PadTrailing(img) ==
    Tensor(<<img.shape[1], img.shape[2] + 1, img.shape[3] + 1, img.shape[4]>>, img.val)

(* K.pool2d(img, (2, 2), strides=(2, 2), padding="valid", pool_mode="avg") *)
PoolAvg(img) ==
    Tensor(<<img.shape[1], img.shape[2] \div 2, img.shape[3] \div 2, img.shape[4]>>,
           img.val)

(* mutant: both spatial dimensions are looked at                           *)
NeedsPadBoth(images) == images[2].shape[2] % 2 # 0 \/ images[2].shape[3] % 2 # 0

(* The condition of line 245: K.int_shape(images[1])[1:2] is the one-      *)
(* element tuple (H,) of y_pred, so only the height is looked at.          *)
NeedsPad(images) == images[2].shape[2] % 2 # 0

(* _shrink_images: images = <<y_true, y_pred>>                             *)
ShrinkImages(images) ==
    LET padded == IF NeedsPad(images)
                  THEN [i \in 1..2 |-> PadTrailing(images[i])]
                  ELSE images
    IN  [i \in 1..2 |-> PoolAvg(padded[i])]

(* K.relu                                                                  *)
Relu(t) == Tensor(t.shape, [n \in Batch(t) |-> [c \in Chans(t) |-> RMax(t.val[n][c], Zero)]])

(* The loop of lines 284-291, from scale idx on.  Each result is           *)
(* [raised, err, terms, trace]: terms is the list `contrasts`, trace has   *)
(* one entry per _get_ssim call.                                           *)
RECURSIVE MsScales(_, _, _, _, _)
MsScales(self, idx, images, contrasts, trace) ==
    LET recursions == Len(self.power_factors)
        imgs == IF idx > 0 THEN ShrinkImages(images) ELSE images
        ev   == [idx |-> idx, size |-> <<imgs[1].shape[2], imgs[1].shape[3]>>,
                 kernel |-> self.kernel, shrunk |-> idx > 0]
    IN  UNION {
          IF o.raised
          THEN {[raised |-> TRUE, err |-> o.err, terms |-> contrasts,
                 trace |-> Append(trace, ev)]}
          ELSE IF idx < recursions - 1
          THEN MsScales(self, idx + 1, imgs, Append(contrasts, Relu(o.contrast)),
                        Append(trace, ev))
          ELSE {[raised |-> FALSE, err |-> "",
                 terms |-> Append(contrasts, Relu(o.ssim)),
                 trace |-> Append(trace, ev)]}
          : o \in GetSsim(self, imgs[1], imgs[2]) }

(* mutant: the terms are multiplied as they are, the weights unused        *)
RECURSIVE MsProductUnweighted(_, _, _)
MsProductUnweighted(terms, pf, idx) ==
    IF idx = 1 THEN terms[1] ELSE TMul(MsProductUnweighted(terms, pf, idx - 1), terms[idx])

(* K.pow(mcs_and_ssim, power_factors) and the product of lines 296-298     *)
RECURSIVE MsProduct(_, _, _)
MsProduct(terms, pf, idx) ==
    LET t == Tensor(terms[idx].shape,
                    [n \in Batch(terms[idx]) |-> [c \in Chans(terms[idx]) |->
                        RPow(terms[idx].val[n][c], pf[idx])]])
    IN  IF idx = 1 THEN t ELSE TMul(MsProduct(terms, pf, idx - 1), t)

(* mutant: the filter follows the smallest scale up as well as down        *)
ShrinkFilterAlways(self, yp) ==
    LET smallest_scale == GetSmallestSize(yp.shape[2], Len(self.power_factors) - 1)
    IN  [self EXCEPT !.filter_size = smallest_scale,
                     !.kernel = GetKernel(smallest_scale)]

(* The filter size and kernel after lines 273-279                          *)
ShrinkFilter(self, yp) ==
    LET im_size        == yp.shape[2]
        recursions     == Len(self.power_factors)
        smallest_scale == GetSmallestSize(im_size, recursions - 1)
    IN  IF smallest_scale < self.filter_size
        THEN [self EXCEPT !.filter_size = smallest_scale,
                          !.kernel = GetKernel(smallest_scale)]
        ELSE self

(* _get_ms_ssim: [raised, err, t, self, trace], self being the instance    *)
(* after the call.                                                         *)
GetMsSsim(self, yt, yp) ==
    LET self1 == ShrinkFilter(self, yp)
    IN  { [raised |-> r.raised, err |-> r.err,
           t |-> IF r.raised THEN NoTensor
                 ELSE MsProduct(r.terms, self1.power_factors, Len(r.terms)),
           self |-> self1, trace |-> r.trace, terms |-> r.terms]
          : r \in MsScales(self1, 0, <<yt, yp>>, <<>>, <<>>) }

(* MSSIMLoss.__call__                                                      *)
MSSIMCall(self, yt, yp) ==
    { [raised |-> r.raised, err |-> r.err,
       t |-> IF r.raised THEN NoTensor
             ELSE MeanAll(TAddS(TMulS(r.t, R(-1, 1)), One)),
       self |-> r.self, trace |-> r.trace, terms |-> r.terms]
      : r \in GetMsSsim(self, yt, yp) }

---------------------------------------------------------------------------
(* GradientLoss, GMSDLoss                                                  *)

GradAlpha == R(19999, 10000)

BetaDefault == R(1, 255)

(* The blocks img[:, :, 1:2, :], img[:, :, 2:, :], img[:, :, -1:, :] of an *)
(* image at least 2 wide are 1, W-2 and 1 columns wide, and likewise for   *)
(* rows: each concatenation below has the shape of img.                    *)
WidthOfBlocks(img) == 1 + (img.shape[3] - 2) + 1

HeightOfBlocks(img) == 1 + (img.shape[2] - 2) + 1

(* _diff_x: the three blocks are differences of two pixels of one row      *)
DiffX(img) ==
    TMulS(Tensor([img.shape EXCEPT ![3] = WidthOfBlocks(img)], TSub(img, img).val),
          R(1, 2))

(* _diff_y                                                                 *)
DiffY(img) ==
    TMulS(Tensor([img.shape EXCEPT ![2] = HeightOfBlocks(img)], TSub(img, img).val),
          R(1, 2))

(* _diff_xx: the blocks are sums of two pixels, minus 2.0 * img            *)
DiffXX(img) ==
    TSub(Tensor([img.shape EXCEPT ![3] = WidthOfBlocks(img)], TAdd(img, img).val),
         TMulS(img, R(2, 1)))

(* _diff_yy                                                                *)
DiffYY(img) ==
    TSub(Tensor([img.shape EXCEPT ![2] = HeightOfBlocks(img)], TAdd(img, img).val),
         TMulS(img, R(2, 1)))

(* _diff_xy: xy_out1 and xy_out2 are both the concatenation of the second  *)
(* xy_left, xy_mid, xy_right (lines 509-510)                               *)
DiffXY(img) ==
    LET xy_out == Tensor([img.shape EXCEPT ![2] = HeightOfBlocks(img),
                                           ![3] = WidthOfBlocks(img)],
                         TAdd(img, img).val)
    IN  TMulS(TSub(xy_out, xy_out), R(1, 4))

(* ------------------------------------------------------------------ *)
(* _diff_xy pixel by pixel.  A plane is one sample and one channel of an   *)
(* image: a sequence of H rows of W pixels (the slices of _diff_xy take    *)
(* all of the batch and channel axes).                                     *)

(* A slice bound i on an axis of length len, as Python resolves it         *)
PyBound(i, len) == IF i < 0 THEN Max(len + i, 0) ELSE Min(i, len)

PlaneH(img) == Len(img)

PlaneW(img) == IF Len(img) = 0 THEN 0 ELSE Len(img[1])

(* img[:, r0:r1, c0:c1, :]; an open stop is the length of the axis         *)
Block(img, r0, r1, c0, c1) ==
    LET rlo == PyBound(r0, PlaneH(img))
        rhi == PyBound(r1, PlaneH(img))
        clo == PyBound(c0, PlaneW(img))
        chi == PyBound(c1, PlaneW(img))
    IN  [i \in 1..(rhi - rlo) |-> [j \in 1..(chi - clo) |-> img[rlo + i][clo + j]]]

(* a + b and a - b of two blocks of one shape                              *)
BlockAdd(a, b) == [i \in 1..Len(a) |-> [j \in 1..Len(a[i]) |-> a[i][j] + b[i][j]]]

BlockSub(a, b) == [i \in 1..Len(a) |-> [j \in 1..Len(a[i]) |-> a[i][j] - b[i][j]]]

(* K.concatenate([a, b, c], axis=1): rows under rows                       *)
ConcatRows(a, b, c) == a \o b \o c

(* K.concatenate([a, b, c], axis=2): columns beside columns                *)
ConcatCols(a, b, c) == [i \in 1..Len(a) |-> a[i] \o b[i] \o c[i]]

(* lines 478-493: the three column blocks under "# xout1"                  *)
XyFirst(img) ==
    LET H == PlaneH(img)
        W == PlaneW(img)
        top_left    == BlockAdd(Block(img, 1, 2, 1, 2),   Block(img, 0, 1, 0, 1))
        inner_left  == BlockAdd(Block(img, 2, H, 1, 2),   Block(img, 0, -2, 0, 1))
        bot_left    == BlockAdd(Block(img, -1, H, 1, 2),  Block(img, -2, -1, 0, 1))
        top_mid     == BlockAdd(Block(img, 1, 2, 2, W),   Block(img, 0, 1, 0, -2))
        mid_mid     == BlockAdd(Block(img, 2, H, 2, W),   Block(img, 0, -2, 0, -2))
        bot_mid     == BlockAdd(Block(img, -1, H, 2, W),  Block(img, -2, -1, 0, -2))
        top_right   == BlockAdd(Block(img, 1, 2, -1, W),  Block(img, 0, 1, -2, -1))
        inner_right == BlockAdd(Block(img, 2, H, -1, W),  Block(img, 0, -2, -2, -1))
        bot_right   == BlockAdd(Block(img, -1, H, -1, W), Block(img, -2, -1, -2, -1))
    IN  [xy_left  |-> ConcatRows(top_left, inner_left, bot_left),
         xy_mid   |-> ConcatRows(top_mid, mid_mid, bot_mid),
         xy_right |-> ConcatRows(top_right, inner_right, bot_right)]

(* lines 495-507: the same three names assigned again under "# Xout2"      *)
XySecond(img) ==
    LET H == PlaneH(img)
        W == PlaneW(img)
        top_left    == BlockAdd(Block(img, 0, 1, 1, 2),    Block(img, 1, 2, 0, 1))
        inner_left  == BlockAdd(Block(img, 0, -2, 1, 2),   Block(img, 2, H, 0, 1))
        bot_left    == BlockAdd(Block(img, -2, -1, 1, 2),  Block(img, -1, H, 0, 1))
        top_mid     == BlockAdd(Block(img, 0, 1, 2, W),    Block(img, 1, 2, 0, -2))
        mid_mid     == BlockAdd(Block(img, 0, -2, 2, W),   Block(img, 2, H, 0, -2))
        bot_mid     == BlockAdd(Block(img, -2, -1, 2, W),  Block(img, -1, H, 0, -2))
        top_right   == BlockAdd(Block(img, 0, 1, -1, W),   Block(img, 1, 2, -2, -1))
        inner_right == BlockAdd(Block(img, 0, -2, -1, W),  Block(img, 2, H, -2, -1))
        bot_right   == BlockAdd(Block(img, -2, -1, -1, W), Block(img, -1, H, -2, -1))
    IN  [xy_left  |-> ConcatRows(top_left, inner_left, bot_left),
         xy_mid   |-> ConcatRows(top_mid, mid_mid, bot_mid),
         xy_right |-> ConcatRows(top_right, inner_right, bot_right)]

(* mutant: xy_out1 is built from the blocks under "# xout1"                *)
DiffXYPlaneTwoSets(img) ==
    LET one == XyFirst(img)
        two == XySecond(img)
        xy_out1 == ConcatCols(one.xy_left, one.xy_mid, one.xy_right)
        xy_out2 == ConcatCols(two.xy_left, two.xy_mid, two.xy_right)
        d == BlockSub(xy_out1, xy_out2)
    IN  [i \in 1..Len(d) |-> [j \in 1..Len(d[i]) |-> R(d[i][j], 4)]]

(* _diff_xy on a plane.  When lines 509-510 run, xy_left, xy_mid and       *)
(* xy_right name the blocks of lines 495-507; both concatenations read     *)
(* them.  The result is (xy_out1 - xy_out2) * 0.25.                        *)
DiffXYPlane(img) ==
    LET blocks == XySecond(img)
        xy_out1 == ConcatCols(blocks.xy_left, blocks.xy_mid, blocks.xy_right)
        xy_out2 == ConcatCols(blocks.xy_left, blocks.xy_mid, blocks.xy_right)
        d == BlockSub(xy_out1, xy_out2)
    IN  [i \in 1..Len(d) |-> [j \in 1..Len(d[i]) |-> R(d[i][j], 4)]]

(* A plane whose pixels are all v, as a tensor of one sample, one channel  *)
IsFlat(p) == \A i \in 1..Len(p) : \A j \in 1..Len(p[i]) : p[i][j] = p[1][1]

FlatTensor(p) ==
    Tensor(<<1, PlaneH(p), PlaneW(p), 1>>, [n \in {1} |-> [c \in {1} |-> p[1][1]]])

(* line 433: self.generalized_loss(self._diff_xy(y_true),                  *)
(* self._diff_xy(y_pred)), for two planes of differences.  The arithmetic  *)
(* of GeneralizedLossValue is exact on two planes of one and the same      *)
(* value (powers of 1); for any other pair the term is left unevaluated    *)
(* (NoTensor).                                                             *)
MixedTerm(xy_true, xy_pred) ==
    IF IsFlat(xy_true) /\ IsFlat(xy_pred) /\ xy_true[1][1] = xy_pred[1][1]
    THEN GeneralizedLossValue(GradAlpha, BetaDefault,
                              RDiv(RAbs(RSub(R(2, 1), GradAlpha)), GradAlpha),
                              FlatTensor(xy_true), FlatTensor(xy_pred))
    ELSE NoTensor

(* GradientLoss.__call__ with self.generalized_loss =                      *)
(* GeneralizedLoss(alpha=1.9999)                                           *)
GradientLossCall(yt, yp) ==
    IF ~SameShape(yt, yp) THEN {Raise("BackendError")}
    ELSE LET factor    == RDiv(RAbs(RSub(R(2, 1), GradAlpha)), GradAlpha)
             gl(a, b)  == GeneralizedLossValue(GradAlpha, BetaDefault, factor, a, b)
             tv_weight  == One
             tv2_weight == One
             tv  == TMulS(TAdd(gl(DiffX(yt), DiffX(yp)), gl(DiffY(yt), DiffY(yp))),
                          tv_weight)
             tv2 == TMulS(TAdd(TAdd(gl(DiffXX(yt), DiffXX(yp)),
                                    gl(DiffYY(yt), DiffYY(yp))),
                               TMulS(gl(DiffXY(yt), DiffXY(yp)), R(2, 1))),
                          tv2_weight)
         IN  {Value(TMulS(TAdd(tv, tv2), RRecip(RAdd(tv_weight, tv2_weight))))}

(* mutant: the raise is gone and a per-sample value comes back             *)
GMSDLossCallNoRaise(yt, yp) == {Value(MeanLastAxis(TAbs(TSub(yt, yt))))}

(* GMSDLoss.__call__: line 540 raises before anything else                 *)
GMSDLossCall(yt, yp) == {Raise("FaceswapError")}

---------------------------------------------------------------------------
(* LossWrapper                                                             *)

(* The loss objects the model registers: one instance of each class.       *)
(* The DSSIMObjective has the default parameters; the GeneralizedLoss is   *)
(* GeneralizedLoss(alpha=1.0, beta=1.0); the MSSIMLoss is the instance     *)
(* whose state is filter_size, kernel, power_factors.                      *)
LossClasses ==
    {"DSSIMObjective", "MSSIMLoss", "GeneralizedLoss", "LInfNorm", "GradientLoss",
     "GMSDLoss"}

WrapDSSIM == NewDSSIM(FilterSizeDefault)

WrapAlpha == One

WrapBeta == One

(* isinstance(func, DSSIMObjective): MSSIMLoss is a subclass               *)
IsDSSIMObjective(func) == func \in {"DSSIMObjective", "MSSIMLoss"}

(* func(n_true, n_pred): [raised, err, t, ms], ms being the MSSIMLoss      *)
(* instance after the call.                                                *)
LossCall(func, ms, yt, yp) ==
    CASE func = "DSSIMObjective" ->
           {[raised |-> o.raised, err |-> o.err, t |-> o.t, ms |-> ms]
              : o \in DSSIMCall(WrapDSSIM, yt, yp)}
      [] func = "MSSIMLoss" ->
           {[raised |-> o.raised, err |-> o.err, t |-> o.t, ms |-> o.self]
              : o \in MSSIMCall(ms, yt, yp)}
      [] func = "GeneralizedLoss" ->
           {[raised |-> o.raised, err |-> o.err, t |-> o.t, ms |-> ms]
              : o \in GeneralizedLossCall(WrapAlpha, WrapBeta, yt, yp)}
      [] func = "LInfNorm" ->
           {[raised |-> o.raised, err |-> o.err, t |-> o.t, ms |-> ms]
              : o \in LInfNormCall(yt, yp)}
      [] func = "GradientLoss" ->
           {[raised |-> o.raised, err |-> o.err, t |-> o.t, ms |-> ms]
              : o \in GradientLossCall(yt, yp)}
      [] func = "GMSDLoss" ->
           {[raised |-> o.raised, err |-> o.err, t |-> o.t, ms |-> ms]
              : o \in GMSDLossCall(yt, yp)}

(* y_true[..., mask_channel] exists for the Python indices -C .. C-1       *)
ValidIndex(t, mask_channel) ==
    /\ mask_channel >= -(t.shape[4])
    /\ mask_channel <= t.shape[4] - 1

(* The position (from 1) of Python index i in a dimension of size c        *)
PyIndex(i, c) == IF i >= 0 THEN i + 1 ELSE c + i + 1

MaskProp == One

(* _apply_mask: [raised, err, n_true, n_pred, arith], arith being the      *)
(* number of elementwise arithmetic operations it performed on the images. *)
ApplyMask(yt, yp, mask_channel) ==
    IF mask_channel = -1
    THEN [raised |-> FALSE, err |-> "", n_true |-> SliceChannels(yt, 3),
          n_pred |-> SliceChannels(yp, 3), arith |-> 0]
    ELSE IF ~ValidIndex(yt, mask_channel)
    THEN [raised |-> TRUE, err |-> "IndexError", n_true |-> NoTensor,
          n_pred |-> NoTensor, arith |-> 0]
    ELSE LET ch   == PyIndex(mask_channel, yt.shape[4])
             tile == Tensor([yt.shape EXCEPT ![4] = 3],
                            [n \in Batch(yt) |-> [c \in 1..3 |-> yt.val[n][ch]]])
             mask_as_k_inv_prop == RSub(One, MaskProp)
             mask == TAddS(TMulS(tile, MaskProp), mask_as_k_inv_prop)
             st   == SliceChannels(yt, 3)
             sp   == SliceChannels(yp, 3)
         IN  IF ~SameShape(st, mask)
             THEN [raised |-> TRUE, err |-> "BackendError", n_true |-> NoTensor,
                   n_pred |-> NoTensor, arith |-> 2]
             ELSE IF ~SameShape(sp, mask)
             THEN [raised |-> TRUE, err |-> "BackendError", n_true |-> NoTensor,
                   n_pred |-> NoTensor, arith |-> 3]
             ELSE [raised |-> FALSE, err |-> "", n_true |-> TMul(st, mask),
                   n_pred |-> TMul(sp, mask), arith |-> 4]

(* K.reshape(t, shape) needs as many elements as the shape holds           *)
ReshapeDefined(t, shape) == NumElements(t) = Product(shape)

Reshape(t, shape) == Tensor(shape, t.val)

(* The shape the masked prediction is reshaped to (line 681)               *)
ReshapeTarget(yp, n_pred) == yp.shape

Scalar(v) == Tensor(<<>>, [n \in {1} |-> << v >>])

(* One entry of the log per registration the loop reached: what          *)
(* _apply_mask did, whether the loss was invoked and with what, and what   *)
(* it answered.                                                            *)
LogEntry(i, func, weight, mask_channel, m, n_pred, invoked, o) ==
    [idx |-> i, func |-> func, weight |-> weight, mask_channel |-> mask_channel,
     n_true |-> m.n_true, n_pred |-> n_pred, arith |-> m.arith,
     invoked |-> invoked, raised |-> o.raised, err |-> o.err, this_loss |-> o.t]

(* mutant: every result is multiplied by the first weight                  *)
WeightOfFirst(weights, i) == weights[1]

(* The weight a result is multiplied by (line 684)                         *)
WeightOf(weights, i) == weights[i]

(* The reduction of line 684                                               *)
Reduce(this_loss) == MeanNonBatch(this_loss)

(* The loop of LossWrapper.__call__ from registration i on, with `loss`    *)
(* accumulated so far.  Each result is [kind, err, value, log, ms].  An    *)
(* exception of _apply_mask, K.reshape or the loss leaves __call__: there  *)
(* is no try.                                                              *)
RECURSIVE CallFrom(_, _, _, _, _, _, _, _, _)
CallFrom(fns, weights, masks, yt, yp, i, loss, lg, ms) ==
    IF i > Min(Len(fns), Min(Len(weights), Len(masks)))
    THEN {[kind |-> "returned", err |-> "", value |-> loss, log |-> lg, ms |-> ms]}
    ELSE
      LET func   == fns[i]
          weight == WeightOf(weights, i)
          m      == ApplyMask(yt, yp, masks[i])
          entry(np, inv, o) == LogEntry(i, func, weight, masks[i], m, np, inv, o)
      IN  IF m.raised
          THEN {[kind |-> "raised", err |-> m.err, value |-> NoTensor,
                 log |-> Append(lg, entry(m.n_pred, FALSE, Raise(m.err))), ms |-> ms]}
          ELSE IF IsDSSIMObjective(func)
                  /\ ~ReshapeDefined(m.n_pred, ReshapeTarget(yp, m.n_pred))
          THEN {[kind |-> "raised", err |-> "BackendError", value |-> NoTensor,
                 log |-> Append(lg, entry(m.n_pred, FALSE, Raise("BackendError"))),
                 ms |-> ms]}
          ELSE
            LET n_pred == IF IsDSSIMObjective(func)
                          THEN Reshape(m.n_pred, ReshapeTarget(yp, m.n_pred))
                          ELSE m.n_pred
            IN  UNION {
                  IF o.raised
                  THEN {[kind |-> "raised", err |-> o.err, value |-> NoTensor,
                         log |-> Append(lg, entry(n_pred, TRUE, o)), ms |-> o.ms]}
                  ELSE CallFrom(fns, weights, masks, yt, yp, i + 1,
                                AddBroadcast(loss, TMulS(Reduce(o.t), weight)),
                                Append(lg, entry(n_pred, TRUE, o)), o.ms)
                  : o \in LossCall(func, ms, m.n_true, n_pred) }

(* LossWrapper.__call__: loss = 0.0, then the loop                         *)
WrapperCall(fns, weights, masks, yt, yp, ms) ==
    CallFrom(fns, weights, masks, yt, yp, 1, Scalar(Zero), <<>>, ms)

---------------------------------------------------------------------------
(* The image batches the model calls the losses with                       *)

MaxBatch == 2

MaxLosses == 2

SmallSize == 8

LargeSize == 12

(* add_loss arguments: DSSIM and the gradient loss with the default weight *)
(* 1.0, every other class with weight 2.0, all without a mask; the L-inf   *)
(* norm also with weight 3.0, with and without the mask of channel 3; and  *)
(* MS-SSIM with weight 3.0 and that mask                                   *)
Registrations ==
    {<<f, One, -1>> : f \in {"DSSIMObjective", "GradientLoss"}}
      \cup {<<f, R(2, 1), -1>> : f \in LossClasses \ {"DSSIMObjective", "GradientLoss"}}
      \cup {<<"LInfNorm", R(3, 1), -1>>}
      \cup {<<f, R(3, 1), 3>> : f \in {"LInfNorm", "MSSIMLoss"}}

(* __call__ arguments <<size and channels of y_true, size and channels of  *)
(* y_pred>>: the usual 4-channel truth with a 3-channel prediction, no     *)
(* mask channel, a 4-channel prediction, and a prediction smaller than the *)
(* truth                                                                   *)
Scenarios ==
    {<<LargeSize, 4, LargeSize, 3>>, <<LargeSize, 3, LargeSize, 3>>,
     <<LargeSize, 4, LargeSize, 4>>, <<LargeSize, 4, SmallSize, 3>>}

(* The mask channel of the ground truth: 0 for odd samples, 1 for even.    *)
MaskValue(n) == IF n % 2 = 1 THEN Zero ELSE One

(* Ground truth: every image channel 1, a fourth channel holding the mask  *)
TrueImage(n, h, w, ch) ==
    Tensor(<<n, h, w, ch>>,
           [i \in 1..n |-> [c \in 1..ch |-> IF c <= 3 THEN One ELSE MaskValue(i)]])

(* Prediction: equal to the ground truth ("same"), or 1/4 in the image     *)
(* channels of the odd samples ("diff")                                    *)
PredImage(n, h, w, ch, variant) ==
    Tensor(<<n, h, w, ch>>,
           [i \in 1..n |-> [c \in 1..ch |->
               IF c <= 3 /\ variant = "diff" /\ i % 2 = 1 THEN R(1, 4) ELSE One]])

Variants == {"same", "diff"}

(* An n x 8 x 8 x 3 batch with every value 0.5                             *)
GreyImage(n) == ConstTensor(<<n, SmallSize, SmallSize, 3>>, n, 3, R(1, 2))

(* The <<y_true, y_pred>> pairs of batch size n: every scenario with a     *)
(* prediction that differs, the usual one also with a perfect prediction,  *)
(* and the grey pair                                                       *)
Inputs(n) ==
    {<<TrueImage(n, sc[1], sc[1], sc[2]), PredImage(n, sc[3], sc[3], sc[4], "diff")>>
        : sc \in Scenarios}
      \cup {<<TrueImage(n, LargeSize, LargeSize, 4), PredImage(n, LargeSize, LargeSize, 3, "same")>>}
      \cup {<<GreyImage(n), GreyImage(n)>>}

NoCall == [kind |-> "none", err |-> "", value |-> NoTensor]

NotShrunk == [done |-> FALSE, padded |-> FALSE, images |-> <<>>]

(* A Python value on a queue: the str "EOF" or a dict                      *)
Str(v) == [py |-> "str", v |-> [str |-> v]]

Dict(d) == [py |-> "dict", v |-> d]

NoItem == [py |-> "none", v |-> [none |-> TRUE]]

(* No Align worker: nothing queued, nothing running                        *)
NoAlign ==
    /\ queues = [in |-> <<>>, out |-> <<>>]
    /\ pc = "none"
    /\ item = NoItem
    /\ taken = <<>>
    /\ calls = <<>>
    /\ queue0 = <<>>

NoGrad == [done |-> FALSE, y_true |-> <<>>, y_pred |-> <<>>,
           xy_true |-> <<>>, xy_pred |-> <<>>, mixed |-> NoTensor]

MSSelf == [filter_size |-> filter_size, kernel |-> kernel, c1 |-> C1const,
           c2 |-> C2const, power_factors |-> power_factors]

---------------------------------------------------------------------------
(* The wrapper: add_loss and __call__ on one LossWrapper, whose MSSIMLoss  *)
(* is MSSIMLoss(power_factors=(1.0, 1.0)).                                 *)

WrapPowerFactors == <<One, One>>

Init ==
    /\ loss_functions = <<>>
    /\ loss_weights = <<>>
    /\ mask_channels = <<>>
    /\ log = <<>>
    /\ y_true = NoTensor
    /\ y_pred = NoTensor
    /\ outcome = NoCall
    /\ filter_size = FilterSizeDefault
    /\ kernel = GetKernel(FilterSizeDefault)
    /\ power_factors = WrapPowerFactors
    /\ filter_size0 = FilterSizeDefault
    /\ sizes_seen = {}
    /\ prev_filter_size = FilterSizeDefault
    /\ ms_trace = <<>>
    /\ ms_terms = <<>>
    /\ gl_alpha = WrapAlpha
    /\ gl_beta = WrapBeta
    /\ threads = <<>>
    /\ shrunk = NotShrunk
    /\ grad = NoGrad
    /\ NoAlign

(* The client is sequential: it has the result of one operation before it *)
(* starts the next.  outcome and log hold the result of a __call__ until   *)
(* the client has taken it.                                                *)
Idle == outcome.kind = "none"

(* LossWrapper.add_loss                                                    *)
AddLoss(function, weight, mask_channel) ==
    /\ Idle
    /\ Len(loss_functions) < MaxLosses
    /\ loss_functions' = Append(loss_functions, function)
    /\ loss_weights' = Append(loss_weights, weight)
    /\ mask_channels' = Append(mask_channels, mask_channel)
    /\ UNCHANGED <<log, iovars, msvars, mshist, glvars, threads, shrunk, others>>

(* LossWrapper.__call__                                                    *)
Call(yt, yp) ==
    /\ Idle
    /\ \E r \in WrapperCall(loss_functions, loss_weights, mask_channels, yt, yp, MSSelf) :
        /\ y_true' = yt
        /\ y_pred' = yp
        /\ outcome' = [kind |-> r.kind, err |-> r.err, value |-> r.value]
        /\ log' = r.log
        /\ filter_size' = r.ms.filter_size
        /\ kernel' = r.ms.kernel
    /\ UNCHANGED <<loss_functions, loss_weights, mask_channels, power_factors,
                   filter_size0, mshist, glvars, threads, shrunk, others>>

(* The client takes the result of the call                                 *)
Return ==
    /\ ~Idle
    /\ outcome' = NoCall
    /\ log' = <<>>
    /\ y_true' = NoTensor
    /\ y_pred' = NoTensor
    /\ UNCHANGED <<loss_functions, loss_weights, mask_channels, msvars, mshist,
                   glvars, threads, shrunk, others>>

Next ==
    \/ \E r \in Registrations : AddLoss(r[1], r[2], r[3])
    \/ \E n \in 1..MaxBatch : \E in \in Inputs(n) : Call(in[1], in[2])
    \/ Return

Spec == Init /\ [][Next]_vars

---------------------------------------------------------------------------
(* Properties of LossWrapper, checked under Spec                           *)

(* The mean of sample n of a loss result over its axes past the first; a   *)
(* scalar result counts the same for every sample.                         *)
PerSample(t, n) == IF Len(t.shape) = 0 THEN t.val[1][1] ELSE RMeanSeq(t.val[n])

RECURSIVE WeightedSum(_, _)
WeightedSum(i, n) ==
    IF i = 0 THEN Zero
    ELSE RAdd(WeightedSum(i - 1, n), RMul(loss_weights[i], PerSample(log[i].this_loss, n)))

(* C1: a call that returns has invoked every registered loss exactly once, *)
(* in registration order, each with the weight and the mask channel it was *)
(* registered with (the lists are as they were); the value returned is,    *)
(* for every sample, the sum over the registrations of weight times the    *)
(* mean of that loss's result over the non-batch axes; and two             *)
(* registrations with weights 2.0 and 3.0 whose losses gave the same       *)
(* result L return 5 * mean(L).                                            *)
C1WeightedSum ==
    outcome.kind = "returned" =>
      /\ Len(log) = Len(loss_functions)
      /\ Len(loss_weights) = Len(loss_functions)
      /\ Len(mask_channels) = Len(loss_functions)
      /\ \A i \in 1..Len(log) :
            /\ log[i].idx = i
            /\ log[i].invoked
            /\ log[i].func = loss_functions[i]
            /\ log[i].weight = loss_weights[i]
            /\ log[i].mask_channel = mask_channels[i]
      /\ \A n \in Batch(outcome.value) :
            outcome.value.val[n][1] = WeightedSum(Len(log), n)
      /\ (/\ loss_weights = <<R(2, 1), R(3, 1)>>
          /\ log[1].this_loss = log[2].this_loss)
            => \A n \in Batch(outcome.value) :
                  outcome.value.val[n][1] = RMul(R(5, 1), PerSample(log[1].this_loss, n))

(* Two L-inf norms of 3/4 with weights 2.0 and 3.0 returned 15/4.          *)
C1Witness ==
    /\ outcome.kind = "returned"
    /\ loss_weights = <<R(2, 1), R(3, 1)>>
    /\ log[1].this_loss = log[2].this_loss
    /\ PerSample(log[1].this_loss, 1) = R(3, 4)
    /\ outcome.value.val[1][1] = R(15, 4)

(* C2: the value a call with at least one registered loss returns has      *)
(* exactly one scalar per sample of the batch: shape (N,).                 *)
C2PerSampleShape ==
    (outcome.kind = "returned" /\ Len(loss_functions) >= 1)
      => outcome.value.shape = <<y_true.shape[1]>>

(* One DSSIMObjective, a batch of two: the call returned a scalar.         *)
C2Witness ==
    /\ outcome.kind = "returned"
    /\ loss_functions = <<"DSSIMObjective">>
    /\ y_true.shape[1] = 2
    /\ outcome.value.shape = <<>>

(* What a caller and the loss functions can see of a call                  *)
Observation(kind, err, value, lg) ==
    [kind |-> kind, err |-> err, value |-> value,
     calls |-> [i \in 1..Len(lg) |->
                  [invoked |-> lg[i].invoked, n_true |-> lg[i].n_true,
                   n_pred |-> lg[i].n_pred, raised |-> lg[i].raised]]]

(* C3: with every registration at mask_channel = -1, the call on           *)
(* (y_true, y_pred) ends as a call on the pair pre-sliced to the first 3   *)
(* channels does: each loss gets the same tensors, and the call returns    *)
(* the same value or fails the same way.                                   *)
C3MaskEquivalence ==
    (~Idle /\ \A i \in 1..Len(mask_channels) : mask_channels[i] = -1)
      => Observation(outcome.kind, outcome.err, outcome.value, log)
           \in { Observation(r.kind, r.err, r.value, r.log)
                 : r \in WrapperCall(loss_functions, loss_weights, mask_channels,
                                     SliceChannels(y_true, 3), SliceChannels(y_pred, 3),
                                     MSSelf) }

(* A 4-channel prediction and a DSSIMObjective at mask_channel = -1: the   *)
(* 3-channel prediction cannot be reshaped to 4 channels, the call raises  *)
(* and the loss is never invoked.                                          *)
C3Witness ==
    /\ outcome.kind = "raised"
    /\ loss_functions = <<"DSSIMObjective">>
    /\ mask_channels = <<-1>>
    /\ y_true.shape = y_pred.shape
    /\ y_pred.shape[4] = 4
    /\ log[1].n_pred.shape[4] = 3
    /\ ~log[1].invoked

(* C4: a 1x8x8x3 batch of 0.5 compared to itself through one               *)
(* DSSIMObjective (weight 1.0) and one GradientLoss (weight 1.0) returns   *)
(* the total loss 0.0.                                                     *)
C4GreyIsZero ==
    (/\ ~Idle
     /\ loss_functions = <<"DSSIMObjective", "GradientLoss">>
     /\ loss_weights = <<One, One>>
     /\ mask_channels = <<-1, -1>>
     /\ y_true = GreyImage(1)
     /\ y_pred = GreyImage(1))
      => (outcome.kind = "returned" /\ outcome.value.val[1][1] = Zero)

(* The 8x8 image is smaller than the 11x11 kernel: the call did not        *)
(* return 0.0, it raised.                                                  *)
C4Witness ==
    /\ loss_functions = <<"DSSIMObjective", "GradientLoss">>
    /\ loss_weights = <<One, One>>
    /\ mask_channels = <<-1, -1>>
    /\ y_true = GreyImage(1)
    /\ y_pred = GreyImage(1)
    /\ outcome.kind = "raised"
    /\ log[1].invoked

(* C5: GMSDLoss raises whenever it is invoked; a loss that raises is the   *)
(* last thing the call does: the call raises that error and returns no     *)
(* value, no later registration is reached, and the lists are as they      *)
(* were.                                                                   *)
C5AbortOnError ==
    /\ \A i \in 1..Len(log) :
          /\ (log[i].func = "GMSDLoss" /\ log[i].invoked)
                => (log[i].raised /\ log[i].err = "FaceswapError")
          /\ log[i].raised
                => /\ i = Len(log)
                   /\ outcome.kind = "raised"
                   /\ outcome.err = log[i].err
                   /\ outcome.value = NoTensor
          /\ log[i].idx = i
          /\ i <= Len(loss_functions)
          /\ log[i].func = loss_functions[i]
          /\ log[i].weight = loss_weights[i]
          /\ log[i].mask_channel = mask_channels[i]
    /\ outcome.kind = "raised" => (Len(log) >= 1 /\ log[Len(log)].raised)
    /\ outcome.kind = "returned"
          => \A i \in 1..Len(loss_functions) : loss_functions[i] # "GMSDLoss"

(* A loss ran, then GMSDLoss raised, and the registration after it was     *)
(* never reached.                                                          *)
C5Witness ==
    /\ outcome.kind = "raised"
    /\ outcome.err = "FaceswapError"
    /\ Len(loss_functions) = 2
    /\ loss_functions[1] = "GMSDLoss"
    /\ Len(log) = 1
    /\ log[1].invoked

(* "a valid channel index of the reference tensor"                         *)
ChannelOf(t, mask_channel) == mask_channel >= 0 /\ mask_channel <= t.shape[4] - 1

(* C7: when y_true and y_pred differ in shape after the truncation to 3    *)
(* channels, or a registration's mask_channel is neither -1 nor a channel  *)
(* of y_true, the call fails before any loss is invoked and before any     *)
(* arithmetic.                                                             *)
C7FailFast ==
    (/\ ~Idle
     /\ Len(loss_functions) >= 1
     /\ \/ SliceChannels(y_true, 3).shape # SliceChannels(y_pred, 3).shape
        \/ \E i \in 1..Len(mask_channels) :
              mask_channels[i] # -1 /\ ~ChannelOf(y_true, mask_channels[i]))
      => /\ outcome.kind = "raised"
         /\ \A i \in 1..Len(log) : ~log[i].invoked /\ log[i].arith = 0

(* The second registration's mask channel does not exist: the first loss   *)
(* was invoked and answered before the call failed.                        *)
C7Witness ==
    /\ outcome.kind = "raised"
    /\ Len(log) = 2
    /\ ~ChannelOf(y_true, mask_channels[2])
    /\ mask_channels[2] # -1
    /\ log[1].invoked
    /\ ~log[1].raised
    /\ log[2].raised

---------------------------------------------------------------------------
(* GeneralizedLoss called directly                                         *)

(* The <<alpha, beta>> the instance is constructed with: the limits 0 and  *)
(* 2 of alpha at three scales, among them the default beta 1/255, and      *)
(* alphas away from the limits for which every power below is rational.    *)
GLParams ==
    {<<a, One>> : a \in {Zero, One, R(2, 1), R(4, 1)}}
      \cup {<<a, R(1, 2)>> : a \in {Zero, R(2, 1), R(4, 1)}}
      \cup {<<a, BetaDefault>> : a \in {Zero, R(2, 1)}}

InitGL ==
    /\ loss_functions = <<>>
    /\ loss_weights = <<>>
    /\ mask_channels = <<>>
    /\ log = <<>>
    /\ y_true = NoTensor
    /\ y_pred = NoTensor
    /\ outcome = NoCall
    /\ filter_size = FilterSizeDefault
    /\ kernel = GetKernel(FilterSizeDefault)
    /\ power_factors = WrapPowerFactors
    /\ filter_size0 = FilterSizeDefault
    /\ sizes_seen = {}
    /\ prev_filter_size = FilterSizeDefault
    /\ ms_trace = <<>>
    /\ ms_terms = <<>>
    /\ \E p \in GLParams : gl_alpha = p[1] /\ gl_beta = p[2]
    /\ threads = <<>>
    /\ shrunk = NotShrunk
    /\ grad = NoGrad
    /\ NoAlign

(* GeneralizedLoss.__init__: the two assignments, nothing else             *)
GLConstruct(a, b) ==
    /\ Idle
    /\ gl_alpha' = a
    /\ gl_beta' = b
    /\ UNCHANGED <<wvars, iovars, msvars, mshist, threads, shrunk, others>>

(* GeneralizedLoss.__call__                                                *)
GLCall(yt, yp) ==
    /\ Idle
    /\ \E o \in GeneralizedLossCall(gl_alpha, gl_beta, yt, yp) :
        /\ y_true' = yt
        /\ y_pred' = yp
        /\ outcome' = IF o.raised
                      THEN [kind |-> "raised", err |-> o.err, value |-> NoTensor]
                      ELSE [kind |-> "returned", err |-> "", value |-> o.t]
    /\ UNCHANGED <<wvars, msvars, mshist, glvars, threads, shrunk, others>>

(* __call__ arguments, as in Scenarios: 3-channel pairs of two sizes, and  *)
(* pairs that differ in channels or in size                                *)
GLScenarios ==
    {<<LargeSize, 3, LargeSize, 3>>, <<SmallSize, 3, SmallSize, 3>>,
     <<LargeSize, 4, LargeSize, 3>>, <<LargeSize, 3, SmallSize, 3>>}

(* The image pairs of batch size n a GeneralizedLoss is called with        *)
GLInputs(n) ==
    {<<TrueImage(n, sc[1], sc[1], sc[2]), PredImage(n, sc[3], sc[3], sc[4], v)>>
        : sc \in GLScenarios, v \in Variants}

NextGL ==
    \/ \E p \in GLParams : GLConstruct(p[1], p[2])
    \/ \E n \in 1..MaxBatch : \E in \in GLInputs(n) : GLCall(in[1], in[2])
    \/ Return

SpecGL == InitGL /\ [][NextGL]_vars

(* C6: a GeneralizedLoss whose alpha is exactly 0 or exactly 2 ends a call *)
(* on tensors of one shape with an error (the parameter is invalid), not   *)
(* with a value computed with a division by zero; with any other alpha the *)
(* call returns a value.                                                   *)
C6InvalidParameter ==
    (~Idle /\ SameShape(y_true, y_pred))
      => IF gl_alpha \in {Zero, R(2, 1)}
         THEN outcome.kind = "raised"
         ELSE outcome.kind = "returned"

(* alpha = 2, the default beta: the call returned, and what it returned is *)
(* NaN.                                                                    *)
C6Witness ==
    /\ gl_alpha = R(2, 1)
    /\ gl_beta = BetaDefault
    /\ outcome.kind = "returned"
    /\ \A n \in Batch(outcome.value) : IsNaN(outcome.value.val[n][1])

---------------------------------------------------------------------------
(* One MSSIMLoss called again and again, by one caller                     *)

MaxScales == 3

MaxSize == 8

(* The smallest image the model gives an instance of MaxScales scales: one *)
(* pixel is left at the last scale.                                        *)
MinSize == IntPow(2, MaxScales - 1)

MSSizes == MinSize..MaxSize

(* filter_size arguments of the constructor                                *)
FilterSizes == {3, 7, FilterSizeDefault}

(* power_factors arguments of the constructor: 1..MaxScales weights of     *)
(* 1.0, and the pairs that give one of two scales the weight 0.0           *)
PowerFactorChoices ==
    {[i \in 1..k |-> One] : k \in 1..MaxScales} \cup {<<Zero, One>>, <<One, Zero>>}

InitMS ==
    /\ loss_functions = <<>>
    /\ loss_weights = <<>>
    /\ mask_channels = <<>>
    /\ log = <<>>
    /\ y_true = NoTensor
    /\ y_pred = NoTensor
    /\ outcome = NoCall
    /\ \E fs \in FilterSizes : \E pf \in PowerFactorChoices :
        /\ filter_size = NewMSSIM(fs, pf).filter_size
        /\ kernel = NewMSSIM(fs, pf).kernel
        /\ power_factors = NewMSSIM(fs, pf).power_factors
        /\ filter_size0 = fs
        /\ prev_filter_size = fs
    /\ sizes_seen = {}
    /\ ms_trace = <<>>
    /\ ms_terms = <<>>
    /\ gl_alpha = WrapAlpha
    /\ gl_beta = WrapBeta
    /\ threads = <<>>
    /\ shrunk = NotShrunk
    /\ grad = NoGrad
    /\ NoAlign

(* MSSIMLoss.__call__, start to end                                        *)
MSCall(yt, yp) ==
    /\ \E r \in MSSIMCall(MSSelf, yt, yp) :
        /\ y_true' = yt
        /\ y_pred' = yp
        /\ outcome' = IF r.raised
                      THEN [kind |-> "raised", err |-> r.err, value |-> NoTensor]
                      ELSE [kind |-> "returned", err |-> "", value |-> r.t]
        /\ filter_size' = r.self.filter_size
        /\ kernel' = r.self.kernel
        /\ ms_trace' = r.trace
        /\ ms_terms' = r.terms
    /\ sizes_seen' = sizes_seen \cup {yp.shape[2]}
    /\ prev_filter_size' = filter_size
    /\ UNCHANGED <<wvars, power_factors, filter_size0, glvars, threads, shrunk, others>>

NextMS ==
    \E s \in MSSizes : \E v \in Variants :
        MSCall(TrueImage(1, s, s, 3), PredImage(1, s, s, 3, v))

SpecMS == InitMS /\ [][NextMS]_vars

(* floor(s / 2^(k-1))                                                      *)
FloorScale(s, k) == s \div IntPow(2, k - 1)

(* The least element of a non-empty set of integers                        *)
Least(S) == CHOOSE m \in S : \A x \in S : m <= x

(* C8: with k scale weights and the initial filter size f0, after calls on *)
(* square images of the sizes seen so far the filter size is               *)
(* min(f0, min_i floor(s_i / 2^(k-1))); no call leaves it larger than it   *)
(* found it; a call changes it exactly when the smallest size it computed  *)
(* is strictly less than the filter size it found, and then to that size;  *)
(* and the stored kernel is filter_size x filter_size.                     *)
C8FilterSize ==
    LET k == Len(power_factors)
    IN  /\ filter_size
             = Least({filter_size0} \cup {FloorScale(s, k) : s \in sizes_seen})
        /\ filter_size <= prev_filter_size
        /\ kernel.h = filter_size
        /\ kernel.w = filter_size
        /\ outcome.kind # "none"
              => LET smallest == FloorScale(y_pred.shape[2], k)
                 IN  /\ (filter_size # prev_filter_size) <=> (smallest < prev_filter_size)
                     /\ smallest < prev_filter_size => filter_size = smallest

(* A call on a larger image found the filter already shrunk by a smaller   *)
(* one and left it alone.                                                  *)
C8Witness ==
    /\ outcome.kind = "returned"
    /\ Cardinality(sizes_seen) >= 2
    /\ filter_size < filter_size0
    /\ filter_size = prev_filter_size
    /\ FloorScale(y_pred.shape[2], Len(power_factors)) > filter_size
    /\ FloorScale(y_pred.shape[2], Len(power_factors)) < filter_size0

(* C11: what _get_smallest_size(s, k - 1) returns for the square image of  *)
(* size s a call was given is the spatial size of the images of the last   *)
(* scale that call evaluated, after its k - 1 _shrink_images.              *)
C11SmallestIsLastScale ==
    outcome.kind = "returned" =>
      LET k        == Len(power_factors)
          smallest == GetSmallestSize(y_pred.shape[2], k - 1)
      IN  ms_trace[Len(ms_trace)].size = <<smallest, smallest>>

(* A 5x5 pair and two scales: _get_smallest_size gives 2, but the image of *)
(* the last scale, padded to 6x6 and halved, is 3x3.                       *)
C11Witness ==
    /\ outcome.kind = "returned"
    /\ y_pred.shape[2] = 5
    /\ Len(power_factors) = 2
    /\ GetSmallestSize(y_pred.shape[2], Len(power_factors) - 1) = 2
    /\ Len(ms_trace) = 2
    /\ ms_trace[2].size = <<3, 3>>

(* The image pair of scale i (from 0) of the last call                     *)
RECURSIVE ScaleImages(_)
ScaleImages(i) == IF i = 0 THEN <<y_true, y_pred>> ELSE ShrinkImages(ScaleImages(i - 1))

(* The ssim and contrast of that pair under the instance's kernel          *)
SsimAtScale(i) ==
    CHOOSE o \in GetSsim(MSSelf, ScaleImages(i)[1], ScaleImages(i)[2]) : ~o.raised

(* Entry i (from 1) of the term vector of k scales                         *)
ExpectedTerm(i, k) ==
    IF i < k THEN Relu(SsimAtScale(i - 1).contrast) ELSE Relu(SsimAtScale(i - 1).ssim)

(* Every entry of t raised to the power e                                  *)
TPow(t, e) ==
    Tensor(t.shape, [n \in Batch(t) |-> [c \in Chans(t) |-> RPow(t.val[n][c], e)]])

(* The product of the first i entries, each raised to its weight           *)
RECURSIVE ExpectedMsSsim(_, _)
ExpectedMsSsim(i, k) ==
    IF i = 1 THEN TPow(ExpectedTerm(1, k), power_factors[1])
    ELSE TMul(ExpectedMsSsim(i - 1, k), TPow(ExpectedTerm(i, k), power_factors[i]))

(* C12: a call of an MSSIMLoss with k scale weights evaluates SSIM k       *)
(* times, on scale 0 as given and on each later scale after one            *)
(* downsampling of the scale before (k - 1 downsamplings); the term vector *)
(* has k entries, relu(contrast) of scale i at index i < k - 1 and         *)
(* relu(ssim) of the last scale at index k - 1; the result is built from   *)
(* the product of the entries, each raised to its weight; with one weight  *)
(* nothing is downsampled and the product is relu(ssim of the full-size    *)
(* pair) raised to that weight.                                            *)
C12TermVector ==
    outcome.kind = "returned" =>
      LET k == Len(power_factors)
      IN  /\ Len(ms_trace) = k
          /\ Len(ms_terms) = k
          /\ Cardinality({i \in 1..k : ms_trace[i].shrunk}) = k - 1
          /\ \A i \in 1..k :
                /\ ms_trace[i].idx = i - 1
                /\ ms_trace[i].shrunk <=> i > 1
                /\ ms_trace[i].size = <<ScaleImages(i - 1)[2].shape[2],
                                        ScaleImages(i - 1)[2].shape[3]>>
                /\ ms_terms[i] = ExpectedTerm(i, k)
          /\ outcome.value
                = MeanAll(TAddS(TMulS(ExpectedMsSsim(k, k), R(-1, 1)), One))
          /\ k = 1 =>
                /\ ms_trace[1].size = <<y_pred.shape[2], y_pred.shape[3]>>
                /\ outcome.value
                      = MeanAll(TAddS(TMulS(TPow(Relu(SsimAtScale(0).ssim),
                                                 power_factors[1]),
                                            R(-1, 1)), One))

(* Three scales on a prediction that differs: two downsamplings, the       *)
(* contrast of the first two scales (1 for these images) and the ssim of   *)
(* the third (less than 1).                                                *)
C12Witness ==
    /\ outcome.kind = "returned"
    /\ Len(power_factors) = 3
    /\ Len(ms_terms) = 3
    /\ ~ms_trace[1].shrunk
    /\ ms_trace[2].shrunk
    /\ ms_trace[3].shrunk
    /\ ms_terms[1].val[1][1] = One
    /\ ms_terms[2].val[1][1] = One
    /\ RLess(ms_terms[3].val[1][1], One)
    /\ RLess(Zero, outcome.value.val[1][1])

---------------------------------------------------------------------------
(* Threads calling one MSSIMLoss at once, every call on the same image     *)
(* pair.  A thread's steps inside _get_ms_ssim are the reads and writes of *)
(* the shared _filter_size and _kernel; the interpreter may switch threads *)
(* between any two of them.                                                *)

NumThreads == 2

Threads == 1..NumThreads

NewThread ==
    [pc |-> "start", smallest_scale |-> 0, built |-> GetKernel(0), idx |-> 0,
     images |-> <<>>, used |-> <<>>, raised |-> FALSE]

InitThreads ==
    /\ loss_functions = <<>>
    /\ loss_weights = <<>>
    /\ mask_channels = <<>>
    /\ log = <<>>
    /\ \E s \in MSSizes : \E v \in Variants :
        /\ y_true = TrueImage(1, s, s, 3)
        /\ y_pred = PredImage(1, s, s, 3, v)
    /\ outcome = NoCall
    /\ \E fs \in FilterSizes : \E pf \in PowerFactorChoices :
        /\ filter_size = NewMSSIM(fs, pf).filter_size
        /\ kernel = NewMSSIM(fs, pf).kernel
        /\ power_factors = NewMSSIM(fs, pf).power_factors
        /\ filter_size0 = fs
        /\ prev_filter_size = fs
    /\ sizes_seen = {}
    /\ ms_trace = <<>>
    /\ ms_terms = <<>>
    /\ gl_alpha = WrapAlpha
    /\ gl_beta = WrapBeta
    /\ threads = [t \in Threads |-> NewThread]
    /\ shrunk = NotShrunk
    /\ grad = NoGrad
    /\ NoAlign

(* lines 273-276: im_size, recursions, smallest_scale                      *)
TStart(t) ==
    /\ threads[t].pc = "start"
    /\ threads' = [threads EXCEPT
          ![t].smallest_scale = GetSmallestSize(y_pred.shape[2], Len(power_factors) - 1),
          ![t].images = <<y_true, y_pred>>,
          ![t].pc = "check"]
    /\ UNCHANGED <<wvars, iovars, msvars, mshist, glvars, shrunk, others>>

(* line 277: the comparison with self._filter_size                         *)
TCheck(t) ==
    /\ threads[t].pc = "check"
    /\ threads' = [threads EXCEPT
          ![t].pc = IF threads[t].smallest_scale < filter_size
                    THEN "write_filter_size" ELSE "ssim"]
    /\ UNCHANGED <<wvars, iovars, msvars, mshist, glvars, shrunk, others>>

(* line 278: self._filter_size = smallest_scale                            *)
TWriteFilterSize(t) ==
    /\ threads[t].pc = "write_filter_size"
    /\ filter_size' = threads[t].smallest_scale
    /\ threads' = [threads EXCEPT ![t].pc = "get_kernel"]
    /\ UNCHANGED <<wvars, iovars, kernel, power_factors, filter_size0, mshist,
                   glvars, shrunk, others>>

(* line 279, right-hand side: self._get_kernel() reads self._filter_size   *)
TGetKernel(t) ==
    /\ threads[t].pc = "get_kernel"
    /\ threads' = [threads EXCEPT ![t].built = GetKernel(filter_size),
                                  ![t].pc = "write_kernel"]
    /\ UNCHANGED <<wvars, iovars, msvars, mshist, glvars, shrunk, others>>

(* line 279, the assignment to self._kernel                                *)
TWriteKernel(t) ==
    /\ threads[t].pc = "write_kernel"
    /\ kernel' = threads[t].built
    /\ threads' = [threads EXCEPT ![t].pc = "ssim"]
    /\ UNCHANGED <<wvars, iovars, filter_size, power_factors, filter_size0, mshist,
                   glvars, shrunk, others>>

(* One turn of the loop of lines 284-291: _shrink_images past scale 0,     *)
(* then _get_ssim, which reads self._kernel (line 121).  An exception of   *)
(* _get_ssim ends the call.                                                *)
TSsim(t) ==
    /\ threads[t].pc = "ssim"
    /\ LET th   == threads[t]
           imgs == IF th.idx > 0 THEN ShrinkImages(th.images) ELSE th.images
       IN  \E o \in GetSsim(MSSelf, imgs[1], imgs[2]) :
             threads' = [threads EXCEPT
                ![t].images = imgs,
                ![t].used = Append(th.used, kernel),
                ![t].idx = th.idx + 1,
                ![t].raised = o.raised,
                ![t].pc = IF o.raised \/ th.idx + 1 = Len(power_factors)
                          THEN "done" ELSE "ssim"]
    /\ UNCHANGED <<wvars, iovars, msvars, mshist, glvars, shrunk, others>>

NextThreads ==
    \E t \in Threads :
        \/ TStart(t)
        \/ TCheck(t)
        \/ TWriteFilterSize(t)
        \/ TGetKernel(t)
        \/ TWriteKernel(t)
        \/ TSsim(t)

SpecThreads == InitThreads /\ [][NextThreads]_vars

(* C9: when threads call one MSSIMLoss at once on images of one size,      *)
(* whatever the order of their steps, every SSIM evaluation of every call  *)
(* uses a kernel of size min(initial filter size, smallest scale size of   *)
(* that image size).                                                       *)
C9SameKernel ==
    \A t \in DOMAIN threads : \A i \in 1..Len(threads[t].used) :
        LET expected == Min(filter_size0,
                            FloorScale(y_pred.shape[2], Len(power_factors)))
        IN  threads[t].used[i] = [h |-> expected, w |-> expected]

(* A thread found the filter size already lowered by another, skipped the  *)
(* rebuild, and evaluated SSIM with the kernel of the initial size.        *)
C9Witness ==
    \E t \in DOMAIN threads :
        /\ threads[t].pc = "done"
        /\ Len(threads[t].used) >= 1
        /\ threads[t].used[1].h = filter_size0
        /\ filter_size < filter_size0
        /\ threads[t].smallest_scale = filter_size

---------------------------------------------------------------------------
(* _shrink_images on image pairs of every height and width                 *)

MaxDim == 6

InitShrink ==
    /\ loss_functions = <<>>
    /\ loss_weights = <<>>
    /\ mask_channels = <<>>
    /\ log = <<>>
    /\ \E n \in 1..MaxBatch : \E h \in 1..MaxDim : \E w \in 1..MaxDim :
       \E v \in Variants :
        /\ y_true = TrueImage(n, h, w, 3)
        /\ y_pred = PredImage(n, h, w, 3, v)
    /\ outcome = NoCall
    /\ filter_size = FilterSizeDefault
    /\ kernel = GetKernel(FilterSizeDefault)
    /\ power_factors = WrapPowerFactors
    /\ filter_size0 = FilterSizeDefault
    /\ sizes_seen = {}
    /\ prev_filter_size = FilterSizeDefault
    /\ ms_trace = <<>>
    /\ ms_terms = <<>>
    /\ gl_alpha = WrapAlpha
    /\ gl_beta = WrapBeta
    /\ threads = <<>>
    /\ shrunk = NotShrunk
    /\ grad = NoGrad
    /\ NoAlign

(* MSSIMLoss._shrink_images([y_true, y_pred])                              *)
Shrink ==
    /\ ~shrunk.done
    /\ shrunk' = [done |-> TRUE, padded |-> NeedsPad(<<y_true, y_pred>>),
                  images |-> ShrinkImages(<<y_true, y_pred>>)]
    /\ UNCHANGED <<wvars, iovars, msvars, mshist, glvars, threads, others>>

NextShrink == Shrink

SpecShrink == InitShrink /\ [][NextShrink]_vars

(* ceil(x / 2)                                                             *)
HalfUp(x) == (x + 1) \div 2

(* C10 (as stated): for a pair of height H and width W, equal or not, the  *)
(* images are padded exactly when H or W is odd, and pooling drops no row  *)
(* and no column of the input: the result is ceil(H/2) x ceil(W/2).        *)
C10PadEitherOdd ==
    shrunk.done =>
      LET H == y_pred.shape[2]
          W == y_pred.shape[3]
      IN  /\ shrunk.padded <=> (H % 2 # 0 \/ W % 2 # 0)
          /\ \A i \in 1..2 : /\ shrunk.images[i].shape[2] = HalfUp(H)
                             /\ shrunk.images[i].shape[3] = HalfUp(W)

(* C10 (amended): the images are padded, by one pixel at the end of both   *)
(* spatial axes, exactly when the height H is odd; the result has          *)
(* ceil(H/2) rows, and ceil(W/2) columns when H is odd or W is even, but   *)
(* floor(W/2) columns when H is even and W is odd (the last column is      *)
(* dropped); for square images nothing is dropped.  Batch and channel      *)
(* axes are unchanged.                                                     *)
C10PadOddHeight ==
    shrunk.done =>
      LET H == y_pred.shape[2]
          W == y_pred.shape[3]
      IN  /\ shrunk.padded <=> (H % 2 # 0)
          /\ \A i \in 1..2 :
                /\ shrunk.images[i].shape[1] = y_pred.shape[1]
                /\ shrunk.images[i].shape[4] = y_pred.shape[4]
                /\ shrunk.images[i].shape[2] = HalfUp(H)
                /\ shrunk.images[i].shape[3]
                      = IF H % 2 = 0 /\ W % 2 # 0 THEN W \div 2 ELSE HalfUp(W)
                /\ H = W => shrunk.images[i].shape[3] = HalfUp(W)

(* An even height with an odd width: no padding, and the last column is    *)
(* gone.                                                                   *)
C10Witness ==
    /\ shrunk.done
    /\ y_pred.shape[2] % 2 = 0
    /\ y_pred.shape[3] % 2 # 0
    /\ ~shrunk.padded
    /\ 2 * shrunk.images[2].shape[3] < y_pred.shape[3]

(***************************************************************************)
(* GradientLoss._diff_xy and the mixed-derivative term, pixel by pixel:    *)
(* one plane of y_true and one of y_pred, of every height and width from   *)
(* 2 to MaxPlane, with pixels 0 and 1.                                     *)
(***************************************************************************)
MaxPlane == 3

Pixels == {0, 1}

Planes == UNION {[1..h -> [1..w -> Pixels]] : h \in 2..MaxPlane, w \in 2..MaxPlane}

(* y_pred against a y_true: the same plane and its negative                *)
PredPlanes(p) == {p, [i \in 1..Len(p) |-> [j \in 1..Len(p[i]) |-> 1 - p[i][j]]]}

InitGrad ==
    /\ loss_functions = <<>>
    /\ loss_weights = <<>>
    /\ mask_channels = <<>>
    /\ log = <<>>
    /\ y_true = NoTensor
    /\ y_pred = NoTensor
    /\ outcome = NoCall
    /\ filter_size = FilterSizeDefault
    /\ kernel = GetKernel(FilterSizeDefault)
    /\ power_factors = WrapPowerFactors
    /\ filter_size0 = FilterSizeDefault
    /\ sizes_seen = {}
    /\ prev_filter_size = FilterSizeDefault
    /\ ms_trace = <<>>
    /\ ms_terms = <<>>
    /\ gl_alpha = GradAlpha
    /\ gl_beta = BetaDefault
    /\ threads = <<>>
    /\ shrunk = NotShrunk
    /\ \E yt \in Planes : \E yp \in PredPlanes(yt) :
          grad = [NoGrad EXCEPT !.y_true = yt, !.y_pred = yp]
    /\ NoAlign

(* lines 432-434: _diff_xy of y_true and of y_pred, and the generalized    *)
(* loss of the two                                                         *)
DiffXYTerm ==
    /\ ~grad.done
    /\ grad' = [grad EXCEPT !.done = TRUE,
                            !.xy_true = DiffXYPlane(grad.y_true),
                            !.xy_pred = DiffXYPlane(grad.y_pred),
                            !.mixed = MixedTerm(DiffXYPlane(grad.y_true),
                                                DiffXYPlane(grad.y_pred))]
    /\ UNCHANGED <<wvars, iovars, msvars, mshist, glvars, threads, shrunk, alignvars>>

NextGrad == DiffXYTerm

SpecGrad == InitGrad /\ [][NextGrad]_vars

(* p has the shape of q and every pixel of p is 0                          *)
ZeroLike(p, q) ==
    /\ Len(p) = Len(q)
    /\ \A i \in 1..Len(p) :
          /\ Len(p[i]) = Len(q[i])
          /\ \A j \in 1..Len(p[i]) : p[i][j] = Zero

(* C13: for every image at least 2 high and 2 wide, _diff_xy returns a     *)
(* tensor of the shape of the image whose every entry is 0, and the        *)
(* generalized loss of _diff_xy(y_true) and _diff_xy(y_pred), and so       *)
(* twice that loss, is 0 for every pair of images.                         *)
C13DiffXYIsZero ==
    grad.done =>
      /\ ZeroLike(grad.xy_true, grad.y_true)
      /\ ZeroLike(grad.xy_pred, grad.y_pred)
      /\ grad.mixed # NoTensor
      /\ \A n \in Batch(grad.mixed) : \A c \in Chans(grad.mixed) :
            /\ grad.mixed.val[n][c] = Zero
            /\ TMulS(grad.mixed, R(2, 1)).val[n][c] = Zero

(* A 3 x 2 y_true whose diagonal sums differ (1 + 0 against 0 + 0 in the   *)
(* top block) and a y_pred that is its negative: both differences are 0    *)
(* everywhere and so is the term.                                          *)
C13Witness ==
    /\ grad.done
    /\ grad.y_true = <<<<1, 0>>, <<0, 0>>, <<0, 1>>>>
    /\ grad.y_pred = <<<<0, 1>>, <<1, 1>>, <<1, 0>>>>
    /\ grad.y_true[2][2] + grad.y_true[1][1] # grad.y_true[1][2] + grad.y_true[2][1]
    /\ ZeroLike(grad.xy_true, grad.y_true)
    /\ ZeroLike(grad.xy_pred, grad.y_pred)
    /\ grad.mixed.val[1][1] = Zero

(***************************************************************************)
(* plugins/extract/align/dlib.py: the Align.align worker.  It is one       *)
(* thread; queues["in"] holds what the detector put there before it        *)
(* starts.  self.finalize and super().align belong to the base class       *)
(* Aligner; self.model is the dlib shape predictor.                        *)
(***************************************************************************)
MaxItems == 3

MaxFaces == 2

(* dict.get(key, default)                                                  *)
DictGet(d, key, default) == IF key \in DOMAIN d THEN d[key] ELSE default

(* item == "EOF": a dict never equals a str                                *)
IsEOF(x) == x.py = "str" /\ x.v.str = "EOF"

(* s[::-1]                                                                 *)
Reversed(s) == [i \in 1..Len(s) |-> s[Len(s) + 1 - i]]

(* item["image"][:, :, ::-1].copy(): the channels of every pixel in        *)
(* reverse order, in a new array.  An image is its channels.               *)
ReverseChannels(image) == Reversed(image)

(* self.model(image, detected_face).parts(): the points the predictor      *)
(* finds, here two points fixed by the face and the image it is given      *)
Parts(image, detected_face) ==
    <<[x |-> detected_face, y |-> image[1]],
      [x |-> detected_face + 1, y |-> image[Len(image)]]>>

(* lines 48-50: one (detected_face, landmarks) pair                        *)
LandmarksOf(image, detected_face) ==
    LET pts == Parts(image, detected_face)
        landmarks == [i \in 1..Len(pts) |-> <<pts[i].x, pts[i].y>>]
    IN  <<detected_face, landmarks>>

(* mutant: the pairs come back last face first                             *)
ProcessLandmarksReversed(image, detected_faces) ==
    [i \in 1..Len(detected_faces) |->
        LandmarksOf(image, detected_faces[Len(detected_faces) + 1 - i])]

(* Align.process_landmarks: retval, one pair appended per detected face    *)
ProcessLandmarks(image, detected_faces) ==
    [i \in 1..Len(detected_faces) |-> LandmarksOf(image, detected_faces[i])]

(* The calls of self.model that process_landmarks makes                    *)
ModelCalls(image, detected_faces) ==
    [i \in 1..Len(detected_faces) |->
        [op |-> "model", arg |-> Dict([image |-> image, face |-> detected_faces[i]])]]

(* self.queues["out"].put(x) and self.finalize(x), as calls                *)
PutCall(x) == [op |-> "put", arg |-> x]

FinalizeCall(x) == [op |-> "finalize", arg |-> x]

(* mutant: after the put the loop goes on                                  *)
AfterExceptionContinue == "get"

(* line 38: break, to line 42                                              *)
AfterException == "eof"

(* line 31: super().align(...)                                             *)
SuperAlign ==
    /\ pc = "align"
    /\ pc' = "get"
    /\ UNCHANGED <<queues, item, taken, calls, queue0>>
    /\ UNCHANGED <<wvars, iovars, msvars, mshist, glvars, threads, shrunk, grad>>

(* line 33: item = self.queues["in"].get(); blocks on an empty queue       *)
Get ==
    /\ pc = "get"
    /\ queues["in"] # <<>>
    /\ item' = Head(queues["in"])
    /\ queues' = [queues EXCEPT !["in"] = Tail(queues["in"])]
    /\ taken' = Append(taken, Head(queues["in"]))
    /\ pc' = "test"
    /\ UNCHANGED <<calls, queue0>>
    /\ UNCHANGED <<wvars, iovars, msvars, mshist, glvars, threads, shrunk, grad>>

(* lines 34-35: if item == "EOF": break                                    *)
BreakOnEOF ==
    /\ pc = "test"
    /\ IsEOF(item)
    /\ pc' = "eof"
    /\ UNCHANGED <<queues, item, taken, calls, queue0>>
    /\ UNCHANGED <<wvars, iovars, msvars, mshist, glvars, threads, shrunk, grad>>

(* lines 36-38: if item.get("exception", False): put it and break          *)
PutException ==
    /\ pc = "test"
    /\ ~IsEOF(item)
    /\ DictGet(item.v, "exception", FALSE)
    /\ queues' = [queues EXCEPT !["out"] = Append(queues["out"], item)]
    /\ calls' = Append(calls, PutCall(item))
    /\ pc' = AfterException
    /\ UNCHANGED <<item, taken, queue0>>
    /\ UNCHANGED <<wvars, iovars, msvars, mshist, glvars, threads, shrunk, grad>>

(* lines 39-40: the image with its channels reversed, and                  *)
(* item["detected_faces"] = self.process_landmarks(image, ...)             *)
Landmarks ==
    /\ pc = "test"
    /\ ~IsEOF(item)
    /\ ~DictGet(item.v, "exception", FALSE)
    /\ LET image == ReverseChannels(item.v["image"])
       IN  /\ item' = Dict([item.v EXCEPT !["detected_faces"] =
                               ProcessLandmarks(image, item.v["detected_faces"])])
           /\ calls' = calls \o ModelCalls(image, item.v["detected_faces"])
    /\ pc' = "finalize"
    /\ UNCHANGED <<queues, taken, queue0>>
    /\ UNCHANGED <<wvars, iovars, msvars, mshist, glvars, threads, shrunk, grad>>

(* line 41: self.finalize(item), and back to the head of the loop          *)
Finalize ==
    /\ pc = "finalize"
    /\ calls' = Append(calls, FinalizeCall(item))
    /\ pc' = "get"
    /\ UNCHANGED <<queues, item, taken, queue0>>
    /\ UNCHANGED <<wvars, iovars, msvars, mshist, glvars, threads, shrunk, grad>>

(* line 42: self.finalize("EOF"); align returns                            *)
FinalizeEOF ==
    /\ pc = "eof"
    /\ calls' = Append(calls, FinalizeCall(Str("EOF")))
    /\ pc' = "done"
    /\ UNCHANGED <<queues, item, taken, queue0>>
    /\ UNCHANGED <<wvars, iovars, msvars, mshist, glvars, threads, shrunk, grad>>

(* What the detector queues: frame i with its image and 0..MaxFaces        *)
(* detected faces, with no "exception" entry, with a false one, or with a  *)
(* true one                                                                *)
Frame(i, faces) ==
    [filename |-> i, image |-> <<10 * i + 1, 10 * i + 2, 10 * i + 3>>,
     detected_faces |-> [f \in 1..faces |-> 100 * i + f]]

Entries(i) ==
    {Dict(Frame(i, faces)) : faces \in 0..MaxFaces}
    \cup {Dict([exception |-> FALSE] @@ Frame(i, MaxFaces)),
          Dict([exception |-> TRUE] @@ Frame(i, 1)),
          Str("EOF")}

(* The queues of exactly n entries, entry i being about frame i            *)
RECURSIVE QueuesOfLen(_)
QueuesOfLen(n) ==
    IF n = 0 THEN {<<>>}
    ELSE {Append(q, e) : q \in QueuesOfLen(n - 1), e \in Entries(n)}

(* Up to MaxItems entries and one more (an "EOF" behind MaxItems items)    *)
QueueContents == UNION {QueuesOfLen(n) : n \in 0..(MaxItems + 1)}

InitAlign ==
    /\ loss_functions = <<>>
    /\ loss_weights = <<>>
    /\ mask_channels = <<>>
    /\ log = <<>>
    /\ y_true = NoTensor
    /\ y_pred = NoTensor
    /\ outcome = NoCall
    /\ filter_size = FilterSizeDefault
    /\ kernel = GetKernel(FilterSizeDefault)
    /\ power_factors = WrapPowerFactors
    /\ filter_size0 = FilterSizeDefault
    /\ sizes_seen = {}
    /\ prev_filter_size = FilterSizeDefault
    /\ ms_trace = <<>>
    /\ ms_terms = <<>>
    /\ gl_alpha = WrapAlpha
    /\ gl_beta = WrapBeta
    /\ threads = <<>>
    /\ shrunk = NotShrunk
    /\ grad = NoGrad
    /\ \E q \in QueueContents :
          /\ queues = [in |-> q, out |-> <<>>]
          /\ queue0 = q
    /\ pc = "align"
    /\ item = NoItem
    /\ taken = <<>>
    /\ calls = <<>>

NextAlign ==
    \/ SuperAlign
    \/ Get
    \/ BreakOnEOF
    \/ PutException
    \/ Landmarks
    \/ Finalize
    \/ FinalizeEOF

SpecAlign == InitAlign /\ [][NextAlign]_vars

(* The worker is a thread of its own: it takes its next step whenever it   *)
(* has one (it waits only in queues["in"].get(), on an empty queue).       *)
SpecAlignFair == SpecAlign /\ WF_vars(NextAlign)

(* An ordinary item: a dict whose "exception" entry is absent or false     *)
Ordinary(x) == x.py = "dict" /\ ~DictGet(x.v, "exception", FALSE)

(* An item whose "exception" entry is truthy                               *)
Exceptional(x) == x.py = "dict" /\ DictGet(x.v, "exception", FALSE)

(* The item x with one (face, landmarks) pair for each of its detected     *)
(* faces, in their order; the landmarks are the predictor's points for     *)
(* that face on the image with its channels reversed                       *)
Aligned(x) ==
    LET faces == x.v["detected_faces"]
        image == ReverseChannels(x.v["image"])
    IN  Dict([x.v EXCEPT !["detected_faces"] =
                [f \in 1..Len(faces) |-> LandmarksOf(image, faces[f])]])

(* The calls that hand something on: put and finalize                      *)
Outputs == SelectSeq(calls, LAMBDA c : c.op \in {"put", "finalize"})

(* The calls of the predictor                                              *)
Predictions == SelectSeq(calls, LAMBDA c : c.op = "model")

(* s is the start of t                                                     *)
IsPrefix(s, t) == Len(s) <= Len(t) /\ s = SubSeq(t, 1, Len(s))

(* finalize of the first n entries of q, ordinary ones aligned             *)
FinalizedRun(q, n) ==
    [i \in 1..n |-> FinalizeCall(IF IsEOF(q[i]) THEN q[i] ELSE Aligned(q[i]))]

(* The predictor's calls for the first n entries of q, all dicts           *)
RECURSIVE PredictionRun(_, _)
PredictionRun(q, n) ==
    IF n = 0 THEN <<>>
    ELSE PredictionRun(q, n - 1)
         \o ModelCalls(ReverseChannels(q[n].v["image"]), q[n].v["detected_faces"])

(* queues["in"] held n >= 0 ordinary items and then "EOF"                  *)
C14Pre ==
    /\ Len(queue0) >= 1
    /\ IsEOF(queue0[Len(queue0)])
    /\ \A i \in 1..(Len(queue0) - 1) : Ordinary(queue0[i])

(* Along the way: the items are taken in arrival order, each once; what    *)
(* has been handed on is the start of finalize(item 1 aligned), ...,       *)
(* finalize(item n aligned), finalize("EOF"); nothing is put on            *)
(* queues["out"] directly; "EOF" is finalized only after every item read.  *)
C14Safe ==
    /\ IsPrefix(taken, queue0)
    /\ Len(taken) + Len(queues["in"]) = Len(queue0)
    /\ IsPrefix(Outputs, FinalizedRun(queue0, Len(queue0)))
    /\ queues["out"] = <<>>
    /\ \A i \in 1..Len(Outputs) :
          IsEOF(Outputs[i].arg) => i = Len(queue0) /\ Len(taken) = Len(queue0)

(* At the end: everything was taken and finalized, "EOF" last and once,    *)
(* and the worker has returned                                             *)
C14Done ==
    /\ pc = "done"
    /\ taken = queue0
    /\ queues["in"] = <<>>
    /\ Outputs = FinalizedRun(queue0, Len(queue0))
    /\ Cardinality({i \in 1..Len(Outputs) : IsEOF(Outputs[i].arg)}) = 1
    /\ IsEOF(Outputs[Len(Outputs)].arg)

(* C14: when queues["in"] holds n >= 0 ordinary items followed by "EOF",   *)
(* the worker takes each item once in arrival order, replaces its          *)
(* detected_faces by one (face, landmarks) pair per detected face in the   *)
(* same order, finalizes the items in arrival order, never finalizes "EOF" *)
(* before an item it has read, and in the end finalizes "EOF" once, as its *)
(* last output, and terminates.                                            *)
C14OrdinaryRun == [](C14Pre => C14Safe) /\ (C14Pre ~> C14Done)

(* Two items, the first with two faces, and "EOF": all three finalized,    *)
(* the first with its two pairs in the order of its faces                  *)
C14Witness ==
    /\ C14Pre
    /\ pc = "done"
    /\ Len(queue0) = 3
    /\ Len(queue0[1].v["detected_faces"]) = 2
    /\ Len(Outputs) = 3
    /\ Outputs[1].op = "finalize"
    /\ Len(Outputs[1].arg.v["detected_faces"]) = 2
    /\ Outputs[1].arg.v["detected_faces"][1][1] = queue0[1].v["detected_faces"][1]
    /\ Outputs[1].arg.v["detected_faces"][2][1] = queue0[1].v["detected_faces"][2]
    /\ Outputs[2].arg.v["filename"] = 2
    /\ IsEOF(Outputs[3].arg)

(* The worker has read an item with a truthy "exception" entry             *)
C15Read == taken # <<>> /\ Exceptional(taken[Len(taken)])

(* What holds once that item has been dealt with (k is its place): it is   *)
(* on queues["out"] as it was queued; the predictor was called for the     *)
(* items before it and not for it; the entries behind it are still on      *)
(* queues["in"]; the items before it were finalized in order, then it was  *)
(* put, and then at most "EOF" was finalized.                              *)
C15Handled ==
    LET k == Len(taken)
    IN  /\ taken = SubSeq(queue0, 1, k)
        /\ queues["in"] = SubSeq(queue0, k + 1, Len(queue0))
        /\ queues["out"] = <<queue0[k]>>
        /\ Predictions = PredictionRun(queue0, k - 1)
        /\ \A i \in 1..(k - 1) : Ordinary(queue0[i])
        /\ LET handed == FinalizedRun(queue0, k - 1) \o <<PutCall(queue0[k])>>
           IN  Outputs = IF pc = "done"
                         THEN handed \o <<FinalizeCall(Str("EOF"))>>
                         ELSE handed

(* No item is read after an exception item, and from the put on the state  *)
(* is as C15Handled says                                                   *)
C15Safe ==
    /\ \A i \in 1..(Len(taken) - 1) : ~Exceptional(taken[i])
    /\ C15Read =>
          /\ pc \in {"test", "eof", "done"}
          /\ pc # "test" => C15Handled

(* The end of such a run                                                   *)
C15Done == pc = "done" /\ C15Read /\ C15Handled

(* C15: when the worker reads an item whose "exception" entry is truthy,   *)
(* it puts the item unchanged on queues["out"] without a call of the       *)
(* predictor for it, reads nothing more from queues["in"] (what is behind  *)
(* the item, "EOF" included, stays there), then finalizes "EOF" once and   *)
(* terminates; the items read before were finalized in order.              *)
C15ExceptionStops == []C15Safe /\ (C15Read ~> C15Done)

(* An ordinary item with two faces, an exception item, and two entries     *)
(* behind it that stay on queues["in"], "EOF" the last                     *)
C15Witness ==
    /\ pc = "done"
    /\ Len(queue0) = 4
    /\ Ordinary(queue0[1])
    /\ Len(queue0[1].v["detected_faces"]) = 2
    /\ Exceptional(queue0[2])
    /\ IsEOF(queue0[4])
    /\ Len(taken) = 2
    /\ Len(queues["in"]) = 2
    /\ queues["out"] = <<queue0[2]>>
    /\ Len(Predictions) = 2
    /\ Len(Outputs) = 3
    /\ Outputs[2] = PutCall(queue0[2])
    /\ IsEOF(Outputs[3].arg)

============================================================================
